---------------------------- MODULE Spec2Model ----------------------------
(***************************************************************************)
(* A model of vue-script-merger (src/src/index.js): the plugin object      *)
(* returned by vueScriptMerger(options), its two hooks configResolved and  *)
(* transform, the built-in path resolver with its cache, and the           *)
(* filesystem the resolver reads.                                          *)
(*                                                                         *)
(* Representation of strings.                                              *)
(*   - A file or directory NAME is the sequence of its dot-separated       *)
(*     parts: "Foo.script.js" is <<"Foo","script","js">>, the suffix       *)
(*     ".js" is <<"","js">>, "." is <<"","">>.  No part contains a dot or  *)
(*     a slash, so two names are equal as strings iff they are equal as    *)
(*     sequences, and startsWith / endsWith of a dot-delimited pattern     *)
(*     are prefix / suffix tests on the parts.                             *)
(*   - A PATH is the sequence of its slash-separated names; an absolute    *)
(*     path starts with the empty name Root ("/r/src" is                   *)
(*     <<Root, <<"r">>, <<"src">>>>).                                      *)
(*   - A TEXT (component source, script content, comment) is a sequence    *)
(*     of tokens; a token is a whole tag ("<script setup>", "</script>",   *)
(*     "</template>", ...), a run of other text or a single character.     *)
(***************************************************************************)
EXTENDS Naturals, Sequences, FiniteSets, TLC

VARIABLES
    config,       \* the merged options record (index.js:39), fixed at construction
    viteAliases,  \* config.viteAliases, written by configResolved (index.js:195)
    scriptCache,  \* the Map of index.js:45: component path -> script path or Null
    files,        \* filesystem: the regular files that exist
    dirState,     \* filesystem: every directory's state, "absent" | "ok" | "unreadable"
    fsChanges,    \* number of filesystem changes made so far (bounded by MaxFsChanges)
    call          \* what the last hook call did and returned

vars == <<config, viteAliases, scriptCache, files, dirState, fsChanges, call>>

-----------------------------------------------------------------------------
(* Bounds of the model. *)

\* how many filesystem changes (create, delete, directory state) a run makes
MaxFsChanges == 2

\* longest component source, in tokens, of the splicing specification
MaxCodeLen == 4

-----------------------------------------------------------------------------
(* Sequences. *)

Last(s) == s[Len(s)]

Front(s) == SubSeq(s, 1, Len(s) - 1)

\* s begins with p
IsPrefix(p, s) == Len(p) <= Len(s) /\ SubSeq(s, 1, Len(p)) = p

\* all sequences over S of length at most n
RECURSIVE SeqsUpTo(_, _)
SeqsUpTo(S, n) ==
    IF n = 0 THEN {<<>>}
    ELSE LET shorter == SeqsUpTo(S, n - 1)
         IN  shorter \cup {Append(s, x) : s \in {t \in shorter : Len(t) = n - 1}, x \in S}

\* JavaScript null, as a path and as a cache value (no path is empty)
Null == <<>>

-----------------------------------------------------------------------------
(* Names and paths: the functions of Node's path module and of String that  *)
(* the plugin calls.                                                        *)

Root == <<"">>
Dot == <<"", "">>
DotDot == <<"", "", "">>

\* String.prototype.endsWith(suffix) on a name, for a suffix that begins with a dot
NameEndsWith(name, suffix) ==
    /\ Len(name) >= Len(suffix)
    /\ \A i \in 2..Len(suffix) : name[Len(name) - Len(suffix) + i] = suffix[i]
    /\ suffix[1] = ""

\* String.prototype.startsWith(base + ".") on a name
NameStartsWithDotted(name, base) ==
    /\ Len(name) >= Len(base) + 1
    /\ SubSeq(name, 1, Len(base)) = base

\* path.extname: from the last dot of the name on; "" when there is no dot or
\* the only dot is the first character
extname(name) ==
    IF Len(name) = 1 \/ (Len(name) = 2 /\ name[1] = "") THEN <<>>
    ELSE <<"", Last(name)>>

\* path.basename(p, ext): the last name of p, without ext when it ends with ext
\* and is not ext itself
basename(p, ext) ==
    LET name == Last(p)
    IN  IF ext # <<>> /\ NameEndsWith(name, ext) /\ name # ext
        THEN SubSeq(name, 1, Len(name) - Len(ext) + 1)
        ELSE name

\* path.dirname of an absolute path
dirname(p) == IF Len(p) <= 2 THEN <<Root>> ELSE Front(p)

\* path.isAbsolute (POSIX)
isAbsolute(p) == p # <<>> /\ p[1] = Root

\* path.normalize on the names of a joined path: "." and empty names drop out,
\* ".." removes the name before it
RECURSIVE NormalizeFrom(_, _, _)
NormalizeFrom(p, i, out) ==
    IF i > Len(p) THEN out
    ELSE LET s == p[i]
         IN  IF s = Dot \/ (s = Root /\ i > 1) THEN NormalizeFrom(p, i + 1, out)
             ELSE IF s = DotDot
             THEN IF out = <<>> \/ Last(out) = DotDot
                  THEN NormalizeFrom(p, i + 1, Append(out, s))
                  ELSE IF out = <<Root>>
                  THEN NormalizeFrom(p, i + 1, out)
                  ELSE NormalizeFrom(p, i + 1, Front(out))
             ELSE NormalizeFrom(p, i + 1, Append(out, s))

\* path.join(a, b)
join(a, b) == NormalizeFrom(a \o b, 1, <<>>)

\* the length of the longest common prefix of two paths
RECURSIVE CommonLen(_, _)
CommonLen(a, b) ==
    IF a = <<>> \/ b = <<>> \/ Head(a) # Head(b) THEN 0
    ELSE 1 + CommonLen(Tail(a), Tail(b))

\* path.relative(from, to) of two absolute paths: one ".." for every name of
\* from below the common prefix, then the rest of to
relative(from, to) ==
    LET k == CommonLen(from, to)
    IN  [i \in 1..(Len(from) - k) |-> DotDot] \o SubSeq(to, k + 1, Len(to))

\* a string of names s1, s2, ... joined by sep, as a text
RECURSIVE JoinText(_, _)
JoinText(ss, sep) ==
    IF ss = <<>> THEN <<>>
    ELSE IF Len(ss) = 1 THEN Head(ss)
    ELSE Head(ss) \o <<sep>> \o JoinText(Tail(ss), sep)

\* a name as text: its parts joined by "." (an empty part is no token)
NameText(name) ==
    SelectSeq(JoinText([i \in 1..Len(name) |-> <<name[i]>>], "."), LAMBDA t : t # "")

\* a path as text: its names joined by "/"
PathText(p) == JoinText([i \in 1..Len(p) |-> NameText(p[i])], "/")


\* string concatenation of two names: the last part of a continues with the
\* first part of b
NameConcat(a, b) == Front(a) \o <<Last(a) \o b[1]>> \o Tail(b)

-----------------------------------------------------------------------------
(* The project on disk.  /r is the root directory; the components           *)
(* /r/src/views/Foo.vue and /r/src/views/Bar.vue are always there, every    *)
(* script file below may exist or not, and every directory may be there,    *)
(* gone, or there but not listable.                                         *)

RootDir == <<Root, <<"r">>>>
SrcDir == <<<<"src">>>>
Views == RootDir \o SrcDir \o <<<<"views">>>>
Scripts == RootDir \o SrcDir \o <<<<"scripts">>>>
ScriptsFoo == Scripts \o <<<<"Foo">>>>
Components == RootDir \o SrcDir \o <<<<"components">>>>

FooVue == Views \o <<<<"Foo", "vue">>>>
BarVue == Views \o <<<<"Bar", "vue">>>>
MainJs == RootDir \o SrcDir \o <<<<"main", "js">>>>

ViewsFooScriptJs == Views \o <<<<"Foo", "script", "js">>>>
ViewsFooJs == Views \o <<<<"Foo", "js">>>>
ScriptsBarJs == Scripts \o <<<<"Bar", "js">>>>
ScriptsFooJs == Scripts \o <<<<"Foo", "js">>>>
ScriptsLowerFooJs == Scripts \o <<<<"foo", "js">>>>
ScriptsFooIndexJs == ScriptsFoo \o <<<<"index", "js">>>>
ComponentsFooJs == Components \o <<<<"Foo", "js">>>>

\* the component files: they exist in every state
ComponentFiles == {FooVue, BarVue}

\* the script files that may be created and deleted
ScriptFiles ==
    {ViewsFooScriptJs, ViewsFooJs, ScriptsBarJs, ScriptsFooJs, ScriptsLowerFooJs,
     ScriptsFooIndexJs, ComponentsFooJs}

Dirs == {Views, Scripts, ScriptsFoo, Components}

\* every path of the project, siblings in the order fs.readdirSync lists them
\* (by name, byte-wise: "Bar.js" < "Foo" < "Foo.js" < "Foo.script.js" < "foo.js")
SortedEntries ==
    <<Components, ComponentsFooJs,
      Scripts, ScriptsBarJs, ScriptsFoo, ScriptsFooIndexJs, ScriptsFooJs,
      ScriptsLowerFooJs,
      Views, BarVue, ViewsFooJs, ViewsFooScriptJs, FooVue>>

\* fs.existsSync
existsSync(p) == p \in files \/ (p \in DOMAIN dirState /\ dirState[p] # "absent")

\* whether fs.readdirSync(dir) throws: dir cannot be listed
ReaddirThrows(dir) == dir \notin DOMAIN dirState \/ dirState[dir] # "ok"

\* fs.readdirSync(dir, {withFileTypes: true}): the entries of dir, in order
readdirSync(dir) ==
    SelectSeq(SortedEntries, LAMBDA e : dirname(e) = dir /\ existsSync(e))

\* Dirent.isDirectory / Dirent.isFile
isDirectory(e) == e \in DOMAIN dirState

isFile(e) == e \in files

\* the filesystem is a tree: what exists lies in a directory that exists
FsTreeOk ==
    /\ ComponentFiles \subseteq files
    /\ files \subseteq ComponentFiles \cup ScriptFiles
    /\ \A p \in files \cup {d \in Dirs : dirState[d] # "absent"} :
           dirname(p) \in Dirs => dirState[dirname(p)] # "absent"

-----------------------------------------------------------------------------
(* Configuration (index.js:25-39).                                          *)

\* a one-name relative path, as the strings of scriptPaths are written
Rel(name) == <<<<name>>>>

\* defaultOptions (index.js:27-36); the comment template is shortened to
\* ASCII, with the placeholder {filename} as a token of its own
defaultOptions ==
    [scriptPaths |-> <<Rel("views"), Rel("scripts"), Rel("components")>>,
     extensions |-> <<<<"", "script", "js">>, <<"", "js">>>>,
     aliases |-> <<>>,
     debug |-> FALSE,
     rootDir |-> RootDir,
     srcDir |-> SrcDir,
     injectComment |-> <<"// external script: ", "{filename}">>,
     useSameDir |-> TRUE]

\* the options a plugin instance is constructed with.  aliases lists the
\* entries of the alias object in Object.entries order, each <<alias, target>>;
\* an override function that is supplied is the value "function"
Options ==
    {[debug |-> FALSE],
     [useSameDir |-> FALSE],
     [scriptPaths |-> <<<<Dot>> \o SrcDir \o Rel("scripts"), Components, Rel("views")>>,
      aliases |-> <<<<Components, ScriptsFoo>>>>],
     [resolveScriptPath |-> "function"],
     [transform |-> "function"]}

\* { ...defaultOptions, ...options } (index.js:39)
MergeOptions(defaults, options) ==
    [f \in DOMAIN defaults \cup DOMAIN options |->
        IF f \in DOMAIN options THEN options[f] ELSE defaults[f]]

\* HasResolveOverride for a plugin that always installs the built-in resolver
HasResolveOverrideNever == FALSE

\* config.resolveScriptPath is set (index.js:42)
HasResolveOverride == "resolveScriptPath" \in DOMAIN config

\* typeof config.transform === 'function' (index.js:229)
HasTransformOverride == "transform" \in DOMAIN config /\ config["transform"] = "function"

-----------------------------------------------------------------------------
(* The built-in path resolver (index.js:52-131) and findMatchingFiles       *)
(* (index.js:140-161).                                                      *)

\* the alias map resolveAlias iterates: config.aliases (index.js:55)
AliasEntries == config.aliases

\* resolveAlias (index.js:54-61): the first alias that filepath starts with is
\* replaced by its target.  Aliases and paths are compared name by name; no
\* name of the project is a proper prefix of another at the end of an alias
RECURSIVE resolveAliasFrom(_, _, _)
resolveAliasFrom(filepath, entries, i) ==
    IF i > Len(entries) THEN filepath
    ELSE IF IsPrefix(entries[i][1], filepath)
    THEN entries[i][2] \o SubSeq(filepath, Len(entries[i][1]) + 1, Len(filepath))
    ELSE resolveAliasFrom(filepath, entries, i + 1)

resolveAlias(filepath) == resolveAliasFrom(filepath, AliasEntries, 1)

\* the directory of one scriptPaths entry before aliases (index.js:88-95)
RawSearchDir(scriptPath) ==
    IF isAbsolute(scriptPath) THEN scriptPath
    ELSE IF Len(scriptPath) >= 2 /\ scriptPath[1] \in {Dot, DotDot}
    THEN join(config.rootDir, scriptPath)
    ELSE join(join(config.rootDir, config.srcDir), scriptPath)

\* the search directory of one scriptPaths entry (index.js:88-98)
SearchDirOf(scriptPath) == resolveAlias(RawSearchDir(scriptPath))

\* extensions.some(ext => entry.name.endsWith(ext)) (index.js:152)
HasExtension(name, extensions) ==
    \E i \in 1..Len(extensions) : NameEndsWith(name, extensions[i])

\* findMatchingFiles (index.js:140-161): every file below dir with one of the
\* extensions, depth first in readdir order; a directory that cannot be listed
\* contributes nothing (its error is caught and logged, index.js:156-158)
RECURSIVE findMatchingFiles(_, _, _)
RECURSIVE ScanEntries(_, _, _, _)
findMatchingFiles(dir, extensions, results) ==
    IF ~existsSync(dir) THEN results
    ELSE IF ReaddirThrows(dir) THEN results
    ELSE ScanEntries(readdirSync(dir), 1, extensions, results)

ScanEntries(entries, i, extensions, results) ==
    IF i > Len(entries) THEN results
    ELSE LET fullPath == entries[i]
         IN  IF isDirectory(fullPath)
             THEN ScanEntries(entries, i + 1, extensions,
                              findMatchingFiles(fullPath, extensions, results))
             ELSE IF isFile(fullPath) /\ HasExtension(Last(fullPath), extensions)
             THEN ScanEntries(entries, i + 1, extensions, Append(results, fullPath))
             ELSE ScanEntries(entries, i + 1, extensions, results)

\* path.basename(vueFilePath, '.vue') (index.js:69)
VueBaseName(vueFilePath) == basename(vueFilePath, <<"", "vue">>)

\* fileBaseName === vueBaseName (index.js:110-112)
BaseNameEquals(fileBaseName, vueBaseName) == fileBaseName = vueBaseName

\* file.includes('/' + vueBaseName + '/index') (index.js:114): a directory
\* named vueBaseName followed by a name that starts with "index".  The
\* backslash form of index.js:115 never holds for POSIX paths
IncludesIndexOf(file, vueBaseName) ==
    \E i \in 2..(Len(file) - 1) : file[i] = vueBaseName /\ file[i + 1][1] = "index"

\* the test of index.js:110-115
IsMatch(file, vueBaseName) ==
    \/ BaseNameEquals(basename(file, extname(Last(file))), vueBaseName)
    \/ NameStartsWithDotted(Last(file), vueBaseName)
    \/ IncludesIndexOf(file, vueBaseName)

\* the first file of the list that matches (index.js:109-120), or Null
FirstMatch(found, vueBaseName) ==
    LET hits == {i \in 1..Len(found) : IsMatch(found[i], vueBaseName)}
    IN  IF hits = {} THEN Null
        ELSE found[CHOOSE i \in hits : \A j \in hits : i <= j]

\* the same-directory candidates, in extension order (index.js:74-76)
SameDirPaths(vueFilePath) ==
    [i \in 1..Len(config.extensions) |->
        join(dirname(vueFilePath),
             <<NameConcat(VueBaseName(vueFilePath), config.extensions[i])>>)]

\* SameDirHit with the extensions tried in the reverse order
SameDirHitLast(vueFilePath) ==
    LET cands == SameDirPaths(vueFilePath)
        hits == {i \in 1..Len(cands) : existsSync(cands[i])}
    IN  IF hits = {} THEN Null
        ELSE cands[CHOOSE i \in hits : \A j \in hits : i >= j]

\* the first same-directory candidate that exists (index.js:75-82), or Null
SameDirHit(vueFilePath) ==
    LET cands == SameDirPaths(vueFilePath)
        hits == {i \in 1..Len(cands) : existsSync(cands[i])}
    IN  IF hits = {} THEN Null
        ELSE cands[CHOOSE i \in hits : \A j \in hits : i <= j]

\* config.useSameDir (index.js:73)
UseSameDir == config.useSameDir

\* SearchFrom with a missing search directory ending the loop instead of
\* being skipped
RECURSIVE SearchFromStopsAtMissing(_, _, _)
SearchFromStopsAtMissing(vueFilePath, i, searched) ==
    IF i > Len(config.scriptPaths) THEN [value |-> Null, searched |-> searched]
    ELSE LET searchDir == SearchDirOf(config.scriptPaths[i])
             seen == Append(searched, searchDir)
         IN  IF ~existsSync(searchDir) THEN [value |-> Null, searched |-> seen]
             ELSE LET found == findMatchingFiles(searchDir, config.extensions, <<>>)
                      m == FirstMatch(found, VueBaseName(vueFilePath))
                  IN  IF m # Null THEN [value |-> m, searched |-> seen]
                      ELSE SearchFromStopsAtMissing(vueFilePath, i + 1, seen)

\* the loop over config.scriptPaths from entry i on (index.js:86-124):
\* value is the file returned (Null when the loop ends), searched the search
\* directories the loop has come to
RECURSIVE SearchFrom(_, _, _)
SearchFrom(vueFilePath, i, searched) ==
    IF i > Len(config.scriptPaths) THEN [value |-> Null, searched |-> searched]
    ELSE LET searchDir == SearchDirOf(config.scriptPaths[i])
             seen == Append(searched, searchDir)
         IN  IF ~existsSync(searchDir) THEN SearchFrom(vueFilePath, i + 1, seen)
             ELSE LET found == findMatchingFiles(searchDir, config.extensions, <<>>)
                      m == FirstMatch(found, VueBaseName(vueFilePath))
                  IN  IF m # Null THEN [value |-> m, searched |-> seen]
                      ELSE SearchFrom(vueFilePath, i + 1, seen)

\* CacheHas for a resolver that never finds an entry, so searches every time
CacheHasNever(vueFilePath) == FALSE

\* scriptCache.has (index.js:65)
CacheHas(vueFilePath) == vueFilePath \in DOMAIN scriptCache

\* scriptCache.set (index.js:79, 117, 128)
CacheSet(vueFilePath, value) ==
    [p \in DOMAIN scriptCache \cup {vueFilePath} |->
        IF p = vueFilePath THEN value ELSE scriptCache[p]]

\* the function createPathResolver returns (index.js:63-130): value is what it
\* returns, cache the cache it leaves, hit whether the cache answered
PathResolver(vueFilePath) ==
    IF CacheHas(vueFilePath)
    THEN [value |-> scriptCache[vueFilePath], cache |-> scriptCache,
          searched |-> <<>>, hit |-> TRUE]
    ELSE LET same == IF UseSameDir THEN SameDirHit(vueFilePath) ELSE Null
         IN  IF same # Null
             THEN [value |-> same, cache |-> CacheSet(vueFilePath, same),
                   searched |-> <<>>, hit |-> FALSE]
             ELSE LET s == SearchFrom(vueFilePath, 1, <<>>)
                  IN  [value |-> s.value, cache |-> CacheSet(vueFilePath, s.value),
                       searched |-> s.searched, hit |-> FALSE]

-----------------------------------------------------------------------------
(* Texts and String.prototype.replace (index.js:223-246).                   *)

\* the smallest element of a non-empty set of numbers
Min(S) == CHOOSE i \in S : \A j \in S : i <= j

\* the opening tags that /<script\s+setup[^>]*>/ matches
SetupOpenTags == {"<script setup>", "<script setup lang=ts>"}

\* /<script\s+setup[^>]*>/.test(code) (index.js:234)
HasSetupOpen(code) == \E i \in 1..Len(code) : code[i] \in SetupOpenTags

\* the grave accent character (a token of its own; the character itself
\* cannot be written in a string here)
Backtick == "<grave accent>"

\* the replacement patterns of String.prototype.replace with a replacement
\* STRING, for a pattern without capture groups: $$ is a dollar sign, $& the
\* match, $ and a grave accent the text before the match, $ and an apostrophe
\* the text after it; any other $ is literal
RECURSIVE ExpandReplacement(_, _, _, _, _)
ExpandReplacement(repl, i, matched, before, after) ==
    IF i > Len(repl) THEN <<>>
    ELSE IF repl[i] = "$" /\ i < Len(repl) /\ repl[i + 1] \in {"$", "&", Backtick, "'"}
    THEN (CASE repl[i + 1] = "$" -> <<"$">>
            [] repl[i + 1] = "&" -> matched
            [] repl[i + 1] = Backtick -> before
            [] repl[i + 1] = "'" -> after)
         \o ExpandReplacement(repl, i + 2, matched, before, after)
    ELSE <<repl[i]>> \o ExpandReplacement(repl, i + 1, matched, before, after)

\* text.replace(pattern, replacementString) for a pattern that matches exactly
\* the token tok: the first tok is replaced, replacement patterns expanded
ReplaceFirstToken(text, tok, repl) ==
    LET hits == {i \in 1..Len(text) : text[i] = tok}
    IN  IF hits = {} THEN text
        ELSE LET i == Min(hits)
                 before == SubSeq(text, 1, i - 1)
                 after == SubSeq(text, i + 1, Len(text))
             IN  before \o ExpandReplacement(repl, 1, <<tok>>, before, after) \o after

\* the comment (index.js:223-226): {filename} in the template replaced by the
\* script path relative to the component's directory
InjectComment(id, scriptPath) ==
    ReplaceFirstToken(config.injectComment, "{filename}",
                      PathText(relative(dirname(id), scriptPath)))

\* SetupReplacer with the block's own content put before the injected script
SetupReplacerContentFirst(openTag, content, closeTag, comment, scriptContent) ==
    <<openTag, "\n">> \o content \o comment \o <<"\n">> \o scriptContent
        \o <<"\n", closeTag>>

\* the replacer function of index.js:237-239
SetupReplacer(openTag, content, closeTag, comment, scriptContent) ==
    <<openTag, "\n">> \o comment \o <<"\n">> \o scriptContent \o <<"\n">>
        \o content \o <<closeTag>>

\* code.replace(/(<script\s+setup[^>]*>)([\s\S]*?)(<\/script>)/, replacer)
\* (index.js:235-240): the leftmost opening tag that has a closing tag after
\* it, up to the first closing tag; the code itself when there is none
SpliceIntoSetup(code, comment, scriptContent) ==
    LET opens == {i \in 1..Len(code) :
                    /\ code[i] \in SetupOpenTags
                    /\ \E j \in (i + 1)..Len(code) : code[j] = "</script>"}
    IN  IF opens = {} THEN code
        ELSE LET i == Min(opens)
                 j == Min({k \in (i + 1)..Len(code) : code[k] = "</script>"})
             IN  SubSeq(code, 1, i - 1)
                 \o SetupReplacer(code[i], SubSeq(code, i + 1, j - 1), code[j],
                                  comment, scriptContent)
                 \o SubSeq(code, j + 1, Len(code))

\* the replacement string of index.js:244
TemplateReplacement(comment, scriptContent) ==
    <<"</template>", "\n", "\n", "<script setup>", "\n">> \o comment \o <<"\n">>
        \o scriptContent \o <<"\n", "</script>">>

\* code.replace(/<\/template>/, replacementString) (index.js:242-245)
SpliceAfterTemplate(code, comment, scriptContent) ==
    ReplaceFirstToken(code, "</template>", TemplateReplacement(comment, scriptContent))

\* the default transformation (index.js:233-246)
DefaultSplice(code, comment, scriptContent) ==
    IF HasSetupOpen(code) THEN SpliceIntoSetup(code, comment, scriptContent)
    ELSE SpliceAfterTemplate(code, comment, scriptContent)

-----------------------------------------------------------------------------
(* The hooks of the plugin object (index.js:188-252).                       *)

\* what a hook returns to the host: null, a text, or an exception it let escape
RetNull == [kind |-> "null", text |-> <<>>]
RetText(t) == [kind |-> "text", text |-> t]
RetRaise == [kind |-> "raise", text |-> <<>>]

\* what a call of a user-supplied override function does: it returns a value
\* or throws; a thrown value is an Error object ("Error") or, as JavaScript
\* allows, null or undefined ("null")
Returns(v) == [thrown |-> "none", value |-> v]
ResolveThrows(what) == [thrown |-> what, value |-> Null]
TransformThrows(what) == [thrown |-> what, value |-> RetNull]
ResolveNotCalled == [thrown |-> "unused", value |-> Null]
TransformNotCalled == [thrown |-> "unused", value |-> RetNull]

\* no hook has been called yet
NoCall ==
    [op |-> "none", id |-> <<>>, code |-> <<>>, scriptPath |-> Null, hit |-> FALSE,
     searched |-> <<>>, scriptContent |-> <<>>, comment |-> <<>>,
     resolveOverride |-> ResolveNotCalled, transformOverride |-> TransformNotCalled,
     ret |-> RetNull, caught |-> FALSE]

\* id.endsWith('.vue') (index.js:212)
IsVueId(id) == NameEndsWith(Last(id), <<"", "vue">>)

\* resolveScriptPath(id) (index.js:42, 216): the override when one is
\* configured, else the built-in resolver.  resolveOutcome is what the
\* override does when called
ResolveScriptPath(id, resolveOutcome) ==
    IF HasResolveOverride
    THEN [value |-> resolveOutcome.value, cache |-> scriptCache, searched |-> <<>>,
          hit |-> FALSE, thrown |-> resolveOutcome.thrown]
    ELSE LET r == PathResolver(id)
         IN  [value |-> r.value, cache |-> r.cache, searched |-> r.searched,
              hit |-> r.hit, thrown |-> "none"]

\* fs.readFileSync(scriptPath, 'utf-8') (index.js:220) throws unless
\* scriptPath is a regular file
ReadThrows(scriptPath) == scriptPath \notin files

\* the catch clause (index.js:247-250): error.stack || error.message is read
\* from the thrown value, which itself throws a TypeError for null and
\* undefined; otherwise the error is logged and null returned
CatchReturn(thrown) == IF thrown = "null" THEN RetRaise ELSE RetNull

\* the call record of a transform call before anything is resolved
BaseCall(code, id, resolveOutcome) ==
    [NoCall EXCEPT !.op = "transform", !.id = id, !.code = code,
                   !.resolveOverride = IF HasResolveOverride /\ IsVueId(id)
                                       THEN resolveOutcome ELSE ResolveNotCalled]

\* the call record with the catch clause entered for the thrown value
Caught(c, thrown) == [c EXCEPT !.ret = CatchReturn(thrown), !.caught = TRUE]

\* the transformation (index.js:228-246): the override's result when one is
\* configured, else the default splicing.  c is the call so far
Merge(c, transformOutcome) ==
    IF HasTransformOverride
    THEN IF transformOutcome.thrown = "none"
         THEN [c EXCEPT !.ret = transformOutcome.value]
         ELSE Caught(c, transformOutcome.thrown)
    ELSE [c EXCEPT !.ret = RetText(DefaultSplice(c.code, c.comment, c.scriptContent))]

\* index.js:219-226: the script file is read and the comment made
ReadScript(c, fileContent, transformOutcome) ==
    [c EXCEPT !.scriptContent = fileContent,
              !.comment = InjectComment(c.id, c.scriptPath),
              !.transformOverride = IF HasTransformOverride THEN transformOutcome
                                    ELSE TransformNotCalled]

\* the try block after resolveScriptPath(id) has answered r (index.js:217-246)
AfterResolve(c, r, fileContent, transformOutcome) ==
    IF r.thrown # "none" THEN Caught(c, r.thrown)
    ELSE IF r.value = Null
    THEN [c EXCEPT !.scriptPath = Null, !.hit = r.hit, !.searched = r.searched]
    ELSE IF ReadThrows(r.value)
    THEN Caught([c EXCEPT !.scriptPath = r.value, !.hit = r.hit,
                          !.searched = r.searched], "Error")
    ELSE Merge(ReadScript([c EXCEPT !.scriptPath = r.value, !.hit = r.hit,
                                    !.searched = r.searched],
                          fileContent, transformOutcome),
               transformOutcome)

\* transform for a .vue id, r being the answer of resolveScriptPath(id)
TransformVue(c, r, fileContent, transformOutcome) ==
    /\ scriptCache' = r.cache
    /\ call' = AfterResolve(c, r, fileContent, transformOutcome)

\* transform(code, id) (index.js:210-251).  fileContent is the content of the
\* script file if it is read, resolveOutcome and transformOutcome what the
\* overrides do if they are called
transform(code, id, fileContent, resolveOutcome, transformOutcome) ==
    IF ~IsVueId(id)
    THEN /\ call' = BaseCall(code, id, resolveOutcome)
         /\ UNCHANGED scriptCache
    ELSE TransformVue(BaseCall(code, id, resolveOutcome),
                      ResolveScriptPath(id, resolveOutcome),
                      fileContent, transformOutcome)

\* the alias tables a pipeline configuration may carry in resolve.alias
AliasTables == {<<<<Scripts, Components>>>>}

\* configResolved(resolvedConfig) (index.js:192-203); table is
\* resolvedConfig.resolve.alias, Null when the configuration has none
configResolved(table) ==
    /\ viteAliases' = IF table # Null THEN table ELSE viteAliases
    /\ call' = [NoCall EXCEPT !.op = "configResolved"]
    /\ UNCHANGED <<config, scriptCache, files, dirState, fsChanges>>

-----------------------------------------------------------------------------
(* The environment: the filesystem changes between hook calls.              *)

FsChanged == [NoCall EXCEPT !.op = "fs"]

CreateFile(f) ==
    /\ fsChanges < MaxFsChanges
    /\ f \notin files
    /\ dirState[dirname(f)] # "absent"
    /\ files' = files \cup {f}
    /\ fsChanges' = fsChanges + 1
    /\ call' = FsChanged
    /\ UNCHANGED <<config, viteAliases, scriptCache, dirState>>

DeleteFile(f) ==
    /\ fsChanges < MaxFsChanges
    /\ f \in files
    /\ files' = files \ {f}
    /\ fsChanges' = fsChanges + 1
    /\ call' = FsChanged
    /\ UNCHANGED <<config, viteAliases, scriptCache, dirState>>

\* a directory is removed with everything below it
RemoveDir(d) ==
    /\ fsChanges < MaxFsChanges
    /\ dirState[d] # "absent"
    /\ files' = {f \in files : ~IsPrefix(d, f)}
    /\ dirState' = [e \in Dirs |-> IF IsPrefix(d, e) THEN "absent" ELSE dirState[e]]
    /\ fsChanges' = fsChanges + 1
    /\ call' = FsChanged
    /\ UNCHANGED <<config, viteAliases, scriptCache>>

\* a directory is created, or its permissions change: it becomes listable
\* ("ok") or not ("unreadable")
SetDirState(d, s) ==
    /\ fsChanges < MaxFsChanges
    /\ dirState[d] # s
    /\ dirname(d) \in Dirs => dirState[dirname(d)] # "absent"
    /\ dirState' = [dirState EXCEPT ![d] = s]
    /\ fsChanges' = fsChanges + 1
    /\ call' = FsChanged
    /\ UNCHANGED <<config, viteAliases, scriptCache, files>>

-----------------------------------------------------------------------------
(* The plugin in a build: Spec.                                             *)

EmptyMap == [p \in {} |-> Null]

\* the ids the host calls transform with
Ids == {FooVue, BarVue, MainJs}

\* component sources the host passes: with a script-setup block, without
SampleCodes ==
    {<<"<template>", "a", "</template>", "<script setup>", "b", "</script>">>,
     <<"<template>", "a", "</template>">>}

\* the content of a script file
SampleContents == {<<"x", "$", "y">>}

\* what a configured resolveScriptPath override may do when called
ResolveOutcomes ==
    IF HasResolveOverride
    THEN {Returns(Null), Returns(ScriptsFooJs), ResolveThrows("Error"),
          ResolveThrows("null")}
    ELSE {ResolveNotCalled}

\* what a configured transform override may do when called
TransformOutcomes ==
    IF HasTransformOverride
    THEN {Returns(RetNull), Returns(RetText(<<"custom">>)), TransformThrows("Error"),
          TransformThrows("null")}
    ELSE {TransformNotCalled}

Init ==
    /\ config \in {MergeOptions(defaultOptions, o) : o \in Options}
    /\ viteAliases = Null
    /\ scriptCache = EmptyMap
    /\ files = ComponentFiles
    /\ dirState = [d \in Dirs |-> "ok"]
    /\ fsChanges = 0
    /\ call = NoCall

Transform ==
    /\ \E id \in Ids, code \in SampleCodes, fileContent \in SampleContents,
          ro \in ResolveOutcomes, to \in TransformOutcomes :
           transform(code, id, fileContent, ro, to)
    /\ UNCHANGED <<config, viteAliases, files, dirState, fsChanges>>

ConfigResolved == \E table \in AliasTables \cup {Null} : configResolved(table)

Create == \E f \in ScriptFiles : CreateFile(f)

Delete == \E f \in ScriptFiles : DeleteFile(f)

Remove == \E d \in Dirs \ {Views} : RemoveDir(d)

SetDir == \E d \in Dirs, s \in {"ok", "unreadable"} : SetDirState(d, s)

Next == Transform \/ ConfigResolved \/ Create \/ Delete \/ Remove \/ SetDir

Spec == Init /\ [][Next]_vars

-----------------------------------------------------------------------------
(* The default splicing on every small source: SpecSplice.  The project has *)
(* Foo.script.js beside Foo.vue; the host is about to call transform on     *)
(* Foo.vue with some source while the script file holds some content.       *)

CodeTokens ==
    {"</template>", "<script setup>", "<script setup lang=ts>", "</script>", "a"}

Codes == SeqsUpTo(CodeTokens, MaxCodeLen)

SpliceContents ==
    {<<>>, <<"x">>, <<"x", "$">>, <<"$", "$">>, <<"$", "&">>, <<"$", "'">>,
     <<"$", Backtick>>}

InitSplice ==
    /\ config = MergeOptions(defaultOptions, [debug |-> FALSE])
    /\ viteAliases = Null
    /\ scriptCache = EmptyMap
    /\ files = ComponentFiles \cup {ViewsFooScriptJs}
    /\ dirState = [d \in Dirs |-> "ok"]
    /\ fsChanges = 0
    /\ call \in {[NoCall EXCEPT !.op = "pending", !.id = FooVue, !.code = c,
                                !.scriptContent = k] :
                    c \in Codes, k \in SpliceContents}

TransformPending ==
    /\ call.op = "pending"
    /\ transform(call.code, call.id, call.scriptContent, ResolveNotCalled,
                 TransformNotCalled)
    /\ UNCHANGED <<config, viteAliases, files, dirState, fsChanges>>

SpecSplice == InitSplice /\ [][TransformPending]_vars

-----------------------------------------------------------------------------
(* Properties of the default splicing (checked under SpecSplice).           *)

\* the last call was transform with the default splicing applied to a script
\* that was found and read
DefaultSpliced ==
    /\ call.op = "transform"
    /\ call.scriptPath # Null
    /\ ~call.caught
    /\ "transform" \notin DOMAIN config

\* the positions of the first script-setup opening tag of the source and of
\* the first closing script tag after it (0 when there is none)
FirstSetupOpen(code) ==
    IF \E i \in 1..Len(code) : code[i] \in SetupOpenTags
    THEN Min({i \in 1..Len(code) : code[i] \in SetupOpenTags})
    ELSE 0

FirstCloseAfter(code, i) ==
    IF \E j \in (i + 1)..Len(code) : code[j] = "</script>"
    THEN Min({j \in (i + 1)..Len(code) : code[j] = "</script>"})
    ELSE 0

\* the source with the block from position i to position j replaced by: open
\* tag, newline, comment, newline, script content, newline, the block's
\* inner content, close tag
WithBlockReplaced(code, i, j, comment, scriptContent) ==
    SubSeq(code, 1, i - 1)
    \o <<code[i], "\n">> \o comment \o <<"\n">> \o scriptContent \o <<"\n">>
    \o SubSeq(code, i + 1, j - 1) \o <<code[j]>>
    \o SubSeq(code, j + 1, Len(code))

\* C5 as stated: whenever the source contains a script-setup opening tag,
\* the result is the source with its first script-setup block replaced by
\* open tag, newline, comment, newline, script content, newline, original
\* inner content, close tag, everything else unchanged.
C5_SetupBlockAlwaysSpliced ==
    (DefaultSpliced /\ FirstSetupOpen(call.code) # 0) =>
        /\ FirstCloseAfter(call.code, FirstSetupOpen(call.code)) # 0
        /\ call.ret =
             RetText(WithBlockReplaced(call.code, FirstSetupOpen(call.code),
                                       FirstCloseAfter(call.code, FirstSetupOpen(call.code)),
                                       call.comment, call.scriptContent))

\* C5 as amended: when the source contains a script-setup opening tag that a
\* closing script tag follows, the result is the source with only that first
\* block replaced (open tag, newline, comment, newline, script content,
\* newline, original inner content, close tag) and everything else unchanged;
\* when no closing script tag follows the first opening tag, the result is
\* the source unchanged.
C5_SetupBlockSpliced ==
    (DefaultSpliced /\ FirstSetupOpen(call.code) # 0) =>
        IF FirstCloseAfter(call.code, FirstSetupOpen(call.code)) # 0
        THEN call.ret =
               RetText(WithBlockReplaced(call.code, FirstSetupOpen(call.code),
                                         FirstCloseAfter(call.code, FirstSetupOpen(call.code)),
                                         call.comment, call.scriptContent))
        ELSE call.ret = RetText(call.code)

\* a source with inner content in its first script-setup block and a second
\* script-setup block after it has been spliced
C5_Witness ==
    /\ DefaultSpliced
    /\ call.code = <<"<script setup>", "a", "</script>", "<script setup>">>
    /\ call.scriptContent = <<"$", "&">>
    /\ call.ret.kind = "text"
    /\ Len(call.ret.text) > Len(call.code)

\* the position of the first closing template tag of the source (0: none)
FirstTemplateClose(code) ==
    IF \E i \in 1..Len(code) : code[i] = "</template>"
    THEN Min({i \in 1..Len(code) : code[i] = "</template>"})
    ELSE 0

\* C6: when the source has no script-setup block, then for every script file
\* content the result is the source with, at the first closing template tag
\* only: that tag, two newlines, <script setup>, newline, the comment,
\* newline, the script file's content, newline, </script>; the rest of the
\* source is unchanged.
C6_NewBlockAfterTemplate ==
    (DefaultSpliced /\ FirstSetupOpen(call.code) = 0
        /\ FirstTemplateClose(call.code) # 0) =>
        call.ret =
          RetText(SubSeq(call.code, 1, FirstTemplateClose(call.code) - 1)
                  \o <<"</template>", "\n", "\n", "<script setup>", "\n">>
                  \o call.comment \o <<"\n">> \o call.scriptContent
                  \o <<"\n", "</script>">>
                  \o SubSeq(call.code, FirstTemplateClose(call.code) + 1,
                            Len(call.code)))

-----------------------------------------------------------------------------
(* Properties of the resolver and of the hooks (checked under Spec).        *)

\* the plugin was constructed with a resolveScriptPath override
ResolveOverrideConfigured == "resolveScriptPath" \in DOMAIN config

\* the plugin was constructed with a transform override
TransformOverrideConfigured == "transform" \in DOMAIN config

\* the state right after a transform call on a component that the built-in
\* resolver answered
BuiltinResolved ==
    /\ call.op = "transform"
    /\ IsVueId(call.id)
    /\ ~ResolveOverrideConfigured

\* ... by searching, not from the cache
FreshlyResolved == BuiltinResolved /\ ~call.hit

\* C1: with the built-in resolver, a cache entry once written is never
\* changed or removed; a resolution of a path that has an entry returns that
\* entry without looking at the filesystem, and a resolution of a path that
\* has none writes what it returns.  So every resolution of a path after the
\* first returns the first one's result, whatever files were created or
\* deleted in between.
C1_CacheIsPermanent ==
    [][ /\ \A p \in DOMAIN scriptCache :
              p \in DOMAIN scriptCache' /\ scriptCache'[p] = scriptCache[p]
        /\ (call'.op = "transform" /\ IsVueId(call'.id) /\ ~ResolveOverrideConfigured) =>
              IF call'.id \in DOMAIN scriptCache
              THEN /\ call'.scriptPath = scriptCache[call'.id]
                   /\ call'.searched = <<>>
              ELSE /\ call'.id \in DOMAIN scriptCache'
                   /\ scriptCache'[call'.id] = call'.scriptPath
      ]_vars

\* a resolution was answered from the cache with a script path whose file
\* has been deleted since
C1_Witness ==
    /\ BuiltinResolved
    /\ call.hit
    /\ call.scriptPath # Null
    /\ call.scriptPath \notin files

\* C2: transform never raises to the host; when resolving, reading or an
\* override fails, it logs the error and returns null.
C2_TransformNeverRaises ==
    call.op = "transform" =>
        /\ call.ret.kind # "raise"
        /\ call.caught => call.ret = RetNull

\* the same-directory candidates of the component of the last call that
\* exist, by the position of their suffix in the extension list
SameDirExisting ==
    {i \in 1..Len(config.extensions) :
        dirname(call.id) \o <<VueBaseName(call.id) \o Tail(config.extensions[i])>>
            \in files}

\* C3: with same-directory preference enabled and no cache entry, if a file
\* <componentDir>/<componentBaseName><suffix> exists, the resolution returns
\* the one with the earliest such suffix, whatever the search directories
\* hold, and no search directory is consulted; search directories are
\* consulted only when no such file exists or the preference is disabled.
C3_SameDirFirst ==
    FreshlyResolved =>
        /\ (config.useSameDir /\ SameDirExisting # {}) =>
              /\ call.scriptPath =
                   dirname(call.id)
                   \o <<VueBaseName(call.id)
                        \o Tail(config.extensions[Min(SameDirExisting)])>>
              /\ call.searched = <<>>
        /\ call.searched # <<>> => (~config.useSameDir \/ SameDirExisting = {})

\* the same-directory file was returned although a search directory holds a
\* matching file too
C3_Witness ==
    /\ FreshlyResolved
    /\ config.useSameDir
    /\ call.scriptPath = ViewsFooScriptJs
    /\ ScriptsFooJs \in files

\* a name without the suffix it ends with
WithoutSuffix(name, suffix) == SubSeq(name, 1, Len(name) - Len(suffix) + 1)

\* C4: when two files of one search directory differ only by suffix, the
\* resolver returns the one whose suffix comes earlier in the extension list:
\* a file returned from the search has no sibling with the same stem and an
\* earlier suffix.
C4_EarlierSuffixPreferred ==
    (FreshlyResolved /\ call.searched # <<>> /\ call.scriptPath # Null) =>
        \A i, j \in 1..Len(config.extensions) :
            (i < j /\ NameEndsWith(Last(call.scriptPath), config.extensions[j])) =>
                dirname(call.scriptPath)
                \o <<WithoutSuffix(Last(call.scriptPath), config.extensions[j])
                     \o Tail(config.extensions[i])>>
                    \notin files

\* C7: overrides are exclusive.  With a resolveScriptPath override the cache
\* is never written, no search directory is consulted and the script path is
\* what the override returned; with a transform override, transform returns
\* what the override returned, null included.
C7_OverridesExclusive ==
    /\ ResolveOverrideConfigured =>
          /\ scriptCache = EmptyMap
          /\ (call.op = "transform" /\ IsVueId(call.id)) =>
                /\ call.searched = <<>>
                /\ ~call.hit
                /\ call.resolveOverride.thrown = "none" =>
                      call.scriptPath = call.resolveOverride.value
    /\ (TransformOverrideConfigured /\ call.op = "transform"
            /\ call.transformOverride.thrown = "none") =>
          call.ret = call.transformOverride.value

\* the override's path was used although the built-in resolver would have
\* found a same-directory file
C7_Witness ==
    /\ ResolveOverrideConfigured
    /\ call.op = "transform"
    /\ call.scriptPath = ScriptsFooJs
    /\ call.ret.kind = "text"
    /\ ViewsFooJs \in files

\* C8: after configResolved was called with an alias table, resolutions
\* rewrite search directories with the aliases of that table too: every
\* search directory consulted is the configured one rewritten by the alias
\* map with the table merged in.
C8_PipelineAliasesApplied ==
    FreshlyResolved =>
        \A k \in 1..Len(call.searched) :
            call.searched[k] =
                resolveAliasFrom(RawSearchDir(config.scriptPaths[k]),
                                 config.aliases \o viteAliases, 1)

\* a name in lower case
LowerCase(name) ==
    [i \in 1..Len(name) |->
        CASE name[i] = "Foo" -> "foo"
          [] name[i] = "Bar" -> "bar"
          [] OTHER -> name[i]]

\* C9: a script file in a configured search directory whose base name is the
\* component's base name apart from letter case is found by the resolver
\* and, with the default splicing, merged into the component.
C9_CaseInsensitiveBaseName ==
    (FreshlyResolved /\ ~TransformOverrideConfigured
        /\ \E k \in 1..Len(config.scriptPaths), f \in files :
              /\ dirname(f) = SearchDirOf(config.scriptPaths[k])
              /\ dirState[dirname(f)] = "ok"
              /\ HasExtension(Last(f), config.extensions)
              /\ LowerCase(basename(f, extname(Last(f))))
                   = LowerCase(VueBaseName(call.id))) =>
        /\ call.scriptPath # Null
        /\ call.ret.kind = "text"

\* the search directories of the configuration, in configured order
SearchDirs == [k \in 1..Len(config.scriptPaths) |-> SearchDirOf(config.scriptPaths[k])]

\* f is a file with a configured suffix that matches the component of the
\* last call
MatchingFile(f) ==
    /\ f \in files
    /\ HasExtension(Last(f), config.extensions)
    /\ IsMatch(f, VueBaseName(call.id))

\* f lies in dir or below it
Below(dir, f) == IsPrefix(dir, f) /\ Len(f) > Len(dir)

\* a listing of dir comes to f: every directory from dir down to the one
\* that holds f exists and can be listed
Listed(dir, f) ==
    /\ Below(dir, f)
    /\ \A n \in Len(dir)..(Len(f) - 1) :
           /\ SubSeq(f, 1, n) \in DOMAIN dirState
           /\ dirState[SubSeq(f, 1, n)] = "ok"

\* the matching files a listing of dir comes to
Yield(dir) == {f \in files : MatchingFile(f) /\ Listed(dir, f)}

\* the position of a path in the listing order
EntryIndex(f) == CHOOSE n \in 1..Len(SortedEntries) : SortedEntries[n] = f

\* the first file of a non-empty yield, in listing order
FirstOf(fs) == CHOOSE f \in fs : \A g \in fs : EntryIndex(f) <= EntryIndex(g)

\* the search directories that yield a matching file
Yielding == {k \in 1..Len(SearchDirs) : Yield(SearchDirs[k]) # {}}

\* the last call's resolution went through the search directories
Searched == FreshlyResolved /\ (config.useSameDir => SameDirExisting = {})

\* search directories are tried in configured order and a directory that is
\* missing or cannot be listed is skipped: the result is the first matching
\* file of the first directory that yields one, and null, cached, when none
\* does
SearchInOrder ==
    Searched =>
        IF Yielding = {}
        THEN /\ call.scriptPath = Null
             /\ scriptCache[call.id] = Null
             /\ call.searched = SearchDirs
        ELSE /\ call.scriptPath = FirstOf(Yield(SearchDirs[Min(Yielding)]))
             /\ scriptCache[call.id] = call.scriptPath
             /\ call.searched = SubSeq(SearchDirs, 1, Min(Yielding))

\* C10 as stated: search directories are tried in order, bad ones skipped,
\* and null is returned only when no same-directory file exists and no
\* existing, readable search directory contains a matching file.
C10_NullOnlyWhenNothingExists ==
    /\ SearchInOrder
    /\ (FreshlyResolved /\ call.scriptPath = Null) =>
          /\ SameDirExisting = {}
          /\ ~\E k \in 1..Len(SearchDirs), f \in files :
                 /\ SearchDirs[k] \in DOMAIN dirState
                 /\ dirState[SearchDirs[k]] = "ok"
                 /\ MatchingFile(f)
                 /\ Below(SearchDirs[k], f)

\* C10 as amended: search directories are tried in order, bad ones skipped,
\* and null is returned (and cached) only when no same-directory file exists
\* or same-directory preference is disabled, and no search directory yields a
\* matching file through directories that exist and can be listed (files
\* below a subdirectory that cannot be listed are not seen).
C10_SearchSkipsBadDirs ==
    /\ SearchInOrder
    /\ (FreshlyResolved /\ call.scriptPath = Null) =>
          /\ config.useSameDir => SameDirExisting = {}
          /\ Yielding = {}
          /\ scriptCache[call.id] = Null

\* a search directory that is missing or cannot be listed was passed over and
\* the file found in a later one
C10_Witness ==
    /\ Searched
    /\ call.scriptPath = ComponentsFooJs
    /\ Len(call.searched) = 3
    /\ dirState[call.searched[2]] # "ok"

=============================================================================
